---- MODULE Spec2Model ----
(***************************************************************************)
(* Model of the asm-code-lens (ca65) providers:                            *)
(*   - DocumentSymbolProvider.provideDocumentSymbols (the line scanner),   *)
(*   - WorkspaceSymbolProvider.provideWorkspaceSymbols / getWsSymbols,     *)
(*   - ReferenceProvider.provideReferences.                                *)
(* The regular expressions (CommonRegexes, SymbolRegexes), grep,           *)
(* grepMultiple, reduceLocations and Config are not part of the shown      *)
(* sources; a line is therefore given by what the patterns capture on it.  *)
(***************************************************************************)
EXTENDS Integers, Sequences, FiniteSets, TLC

(***************************************************************************)
(* Bounds of the model.                                                    *)
(***************************************************************************)
\* longest document over the full line alphabet
MaxLines == 3
\* longest document over the outline-scenario alphabet
MaxOutlineLines == 4
\* longest document of MODULE/ENDMODULE/STRUCT/ENDS lines
MaxScopeLines == 5
\* most workspace folders
MaxRoots == 2
\* longest workspace-symbol query
MaxQueryLen == 2
\* last line of a file in which grep finds a match
MaxRefLine == 1
MaxBlockLines == 4
MaxIdLen == 4
MaxQueryChars == 2

(***************************************************************************)
(* Lines.  A line is what regexLabel captures in front (match[1] is the    *)
(* prefix "", "." or "@", match[2] the identifier; both empty: no label)   *)
(* and what follows the label: the pattern that recognises the remainder   *)
(* (pat), and its capture groups 1 and 2 (kw, arg).                        *)
(***************************************************************************)
NoLabel == [m1 |-> "", m2 |-> ""]

Lbl(m1, m2) == [m1 |-> m1, m2 |-> m2]

Rest(pat, kw, arg) == [pat |-> pat, kw |-> kw, arg |-> arg]

Line(lbl, rest) == [label |-> lbl, rest |-> rest]

REmpty == Rest("Empty", "", "")
RCode == Rest("Code", "nop", "")
RConst == Rest("Const", "EQU", "5")
RData == Rest("Data", "defb", "1")
RModule == Rest("Module", "MODULE", "foo")
RModuleNoName == Rest("Module", "MODULE", "")
REndModule == Rest("Module", "ENDMODULE", "")
RStruct == Rest("Struct", "STRUCT", "foo")
REnds == Rest("Struct", "ENDS", "")
RProc == Rest("CA65", ".proc", "foo")
RDefine == Rest("CA65", ".define", "foo")
REndProc == Rest("CA65End", ".endproc", "")
RMacro == Rest("Macro", "MACRO", "foo")
\* text no pattern recognises (also: a line whose excluded label was not stripped)
ROther == Rest("Other", "", "")

Labels == {NoLabel, Lbl("", "bar"), Lbl(".", "loop"), Lbl("@", "c")}

Rests == {RModule, REndModule, RProc, REndProc, RMacro}

\* the full line alphabet: every label in front of every remainder
ScanLines == {Line(lb, r) : lb \in Labels, r \in Rests}

\* the lines of the outline scenarios of the specification
OutlineLines == {Line(NoLabel, RModule), Line(NoLabel, REndModule),
                 Line(Lbl("", "bar"), RCode), Line(Lbl(".", "loop"), RCode),
                 Line(Lbl("", "VAL"), RConst), Line(Lbl("", "bar"), REmpty),
                 Line(Lbl("", "VAL"), RData), Line(NoLabel, RConst),
                 Line(NoLabel, RCode), Line(NoLabel, RDefine)}

\* documents of block openers and closers of every kind, and a label
BlockLines == {Line(NoLabel, RModule), Line(NoLabel, REndModule),
               Line(NoLabel, RStruct), Line(NoLabel, REnds),
               Line(NoLabel, RProc), Line(NoLabel, REndProc),
               Line(NoLabel, RDefine),
               Line(Lbl("", "bar"), RCode), Line(Lbl("", "bar"), REnds)}

\* documents made of scope keywords only
ScopeLines == {Line(NoLabel, RModule), Line(NoLabel, REndModule),
               Line(NoLabel, RStruct), Line(NoLabel, REnds),
               Line(NoLabel, RModuleNoName)}

(***************************************************************************)
(* Configuration of the document's workspace (Config.getConfigForDoc).     *)
(***************************************************************************)
ExcludeLists == {<<>>, <<"foo", "bar">>}

\* no configuration resolves for the document (config is undefined)
NoDocConfig == [defined |-> FALSE, enableOutlineView |-> FALSE,
                labelsExcludes |-> <<>>,
                enableCA65CheapLocalLabelNestingInOutline |-> FALSE]

DocConfigs == {NoDocConfig} \cup
              [defined : {TRUE},
               enableOutlineView : BOOLEAN,
               labelsExcludes : ExcludeLists,
               enableCA65CheapLocalLabelNestingInOutline : BOOLEAN]

VARIABLES
    \* ---- provideDocumentSymbols ----
    dsPc,                   \* "idle", "scan", "done"
    dsConfig,               \* Config.getConfigForDoc(document)
    regexMacro,             \* SymbolRegexes.regexMacro(languageId): TRUE when a pattern exists
    lines,                  \* the lines of the document scanned so far
    syms,                   \* the DocumentSymbol objects, in creation order
    symbols,                \* the root list (indices into syms)
    lastSymbol,             \* index into syms, 0 = undefined
    lastSymbols,            \* the pending labels (indices into syms)
    lastAbsSymbolChildren,  \* owner of the children array, 0 = undefined
    lastModules,            \* the scope stack (indices into syms)
    defaultSymbolKind,
    dsResult                \* "pending", "undefined", "symbols"

VARIABLES
    \* ---- provideWorkspaceSymbols ----
    wsPc,          \* "idle", "loop" (at the head of the loop), "await", "done"
    wsFolders,     \* vscode.workspace.workspaceFolders (undefined behaves as empty)
    configs,       \* Config.configs: one entry per workspace folder
    wsQueryLen,    \* query.length
    wsToken,       \* token.isCancellationRequested
    wsI,           \* position of the loop in wsFolders
    wsSymbols,     \* the symbols gathered so far
    wsResolved,    \* "pending", "undefined", "symbols": what resolve() was given
    wsSearched,    \* the folders grepMultiple was called for
    wsFound,       \* the locations grepMultiple returned, per completed call
    wsAtCancel,    \* where the call stood when cancellation was requested
    wsConfigsAtCall, \* Config.configs as it was when the call started
    wsConfig       \* the loop's local 'config' while getWsSymbols runs

VARIABLES
    \* ---- provideReferences ----
    refPc,                 \* "idle", "grep" (awaiting grep), "done"
    refConfig,             \* Config.getConfigForDoc(document)
    refOrigin,             \* document.fileName and position
    refIncludeDeclaration, \* options.includeDeclaration
    refToken,              \* token.isCancellationRequested
    refCandidates,         \* the locations grep returned
    refResult,             \* "pending", "undefined", "locations"
    refLocations           \* the locations returned

VARIABLES
    \* ---- CompletionRegexes ----
    rxPc,          \* "idle", "input", "built", "done"
    rxQuery,       \* the query, a sequence of characters
    rxLabel,       \* the identifier of the line `<identifier>:` that is searched
    rxLanguageId,  \* "asm-collection" or "asm-list-file"
    rxCfg,         \* {labelsWithColons, labelsWithoutColons}
    rxRegexes,     \* what regexesEveryLabelForWord returned
    rxMatch        \* whether the with-colon pattern matched the line

dsVars == <<dsPc, dsConfig, regexMacro, lines, syms, symbols, lastSymbol,
            lastSymbols, lastAbsSymbolChildren, lastModules,
            defaultSymbolKind, dsResult>>

wsVars == <<wsPc, wsFolders, configs, wsQueryLen, wsToken, wsI, wsSymbols,
            wsResolved, wsSearched, wsFound, wsAtCancel, wsConfigsAtCall,
            wsConfig>>

refVars == <<refPc, refConfig, refOrigin, refIncludeDeclaration, refToken,
             refCandidates, refResult, refLocations>>

VARIABLES
    \* ---- extension.ts: activate / configure ----
    extActivated,   \* activate() has run
    disposables,    \* every vscode.Disposable created, in creation order
    disposed,       \* the disposables whose dispose() was called
    subscriptions,  \* context.subscriptions (indices into disposables)
    reg,            \* regCodeLensProvider .. regFoldingProvider, 0 = undefined
    globalEnable,   \* Config.globalEnableCodeLenses .. globalEnableWorkspaceSymbols
    extConfigures   \* the number of configure calls so far

extVars == <<extActivated, disposables, disposed, subscriptions, reg,
             globalEnable, extConfigures>>

rxVars == <<rxPc, rxQuery, rxLabel, rxLanguageId, rxCfg, rxRegexes, rxMatch>>

vars == <<dsVars, wsVars, refVars, rxVars, extVars>>

(***************************************************************************)
(* provideDocumentSymbols                                                  *)
(***************************************************************************)
SeqToSet(s) == {s[i] : i \in 1..Len(s)}

\* a variant of Excludes that forgets the configured list
Excludes_OnlyInclude(config) == <<"include">>

\* excludes = ['include', ...config.labelsExcludes]
Excludes(config) == <<"include">> \o config.labelsExcludes

HasLabel(l) == l.label # NoLabel

\* label = match[1] + match[2]
LabelText(l) == l.label.m1 \o l.label.m2

\* the state of the scan, as one record
ScanState == [syms |-> syms, symbols |-> symbols, lastSymbol |-> lastSymbol,
              lastSymbols |-> lastSymbols,
              lastAbsSymbolChildren |-> lastAbsSymbolChildren,
              lastModules |-> lastModules,
              defaultSymbolKind |-> defaultSymbolKind]

\* new vscode.DocumentSymbol(name, '', kind, range, range)
DocumentSymbol(name, kind, line) ==
    [name |-> name, detail |-> "", kind |-> kind, line |-> line, children |-> <<>>]

\* parent.children.push(id)
PushChild(ss, parent, id) ==
    [ss EXCEPT ![parent].children = Append(@, id)]

\* a variant of AttachToScope that also lists a nested symbol at the root
AttachToScope_AlsoRoot(st, id) ==
    IF Len(st.lastModules) > 0
    THEN [st EXCEPT !.syms = PushChild(@, st.lastModules[Len(st.lastModules)], id),
                    !.symbols = Append(@, id)]
    ELSE [st EXCEPT !.symbols = Append(@, id)]

\* Attach to the top scope frame, or to the root list when the stack is empty.
AttachToScope(st, id) ==
    IF Len(st.lastModules) > 0
    THEN [st EXCEPT !.syms = PushChild(@, st.lastModules[Len(st.lastModules)], id)]
    ELSE [st EXCEPT !.symbols = Append(@, id)]

\* lastModules.pop(): a no-op on the empty stack
Pop(s) == IF Len(s) = 0 THEN s ELSE SubSeq(s, 1, Len(s) - 1)

\* a variant of LabelStep that nests cheap local labels whatever the toggle
LabelStep_AlwaysNests(st, l, line, config) ==
    IF HasLabel(l) /\ LabelText(l) \notin SeqToSet(Excludes(config))
    THEN LET id == Len(st.syms) + 1
             s1 == [st EXCEPT
                      !.syms = Append(@, DocumentSymbol(LabelText(l), st.defaultSymbolKind, line)),
                      !.lastSymbol = id,
                      !.lastSymbols = Append(@, id)]
         IN  IF l.label.m1 = "."
             THEN IF s1.lastAbsSymbolChildren # 0
                  THEN [s1 EXCEPT !.syms = PushChild(@, s1.lastAbsSymbolChildren, id)]
                  ELSE s1
             ELSE [AttachToScope(s1, id) EXCEPT !.lastAbsSymbolChildren = id]
    ELSE st

\* The label step.
LabelStep(st, l, line, config) ==
    IF HasLabel(l) /\ LabelText(l) \notin SeqToSet(Excludes(config))
    THEN LET id == Len(st.syms) + 1
             s1 == [st EXCEPT
                      !.syms = Append(@, DocumentSymbol(LabelText(l), st.defaultSymbolKind, line)),
                      !.lastSymbol = id,
                      !.lastSymbols = Append(@, id)]
         IN  IF l.label.m1 = "."
             THEN \* lastAbsSymbolChildren?.push(lastSymbol)
                  IF s1.lastAbsSymbolChildren # 0
                  THEN [s1 EXCEPT !.syms = PushChild(@, s1.lastAbsSymbolChildren, id)]
                  ELSE s1
             ELSE IF ~config.enableCA65CheapLocalLabelNestingInOutline /\ l.label.m1 = "@"
             THEN [s1 EXCEPT !.symbols = Append(@, id)]
             ELSE [AttachToScope(s1, id) EXCEPT !.lastAbsSymbolChildren = id]
    ELSE st

\* lineContents after the label step: the label is removed only when it
\* was matched and not excluded; the keyword patterns do not recognise a
\* line that still starts with its label.
LineContents(l, config) ==
    IF HasLabel(l) /\ LabelText(l) \in SeqToSet(Excludes(config))
    THEN ROther
    ELSE l.rest

\* a variant of CA65Step whose block end keeps the relative-label parent
CA65Step_KeepsParent(st, rest, line) ==
    IF rest.pat = "CA65"
    THEN LET id == Len(st.syms) + 1
             s1 == [st EXCEPT !.syms = Append(@, DocumentSymbol(rest.arg, "Method", line))]
             s2 == AttachToScope(s1, id)
         IN  IF rest.kw # ".define"
             THEN [s2 EXCEPT !.lastModules = Append(@, id)]
             ELSE s2
    ELSE IF rest.pat = "CA65End"
    THEN [st EXCEPT !.lastModules = Pop(@)]
    ELSE st

\* a variant of CA65Step that opens a frame for .define as well
CA65Step_DefinePushes(st, rest, line) ==
    IF rest.pat = "CA65"
    THEN LET id == Len(st.syms) + 1
             s1 == [st EXCEPT !.syms = Append(@, DocumentSymbol(rest.arg, "Method", line))]
             s2 == AttachToScope(s1, id)
         IN  [s2 EXCEPT !.lastModules = Append(@, id)]
    ELSE IF rest.pat = "CA65End"
    THEN [st EXCEPT !.lastModules = Pop(@), !.lastAbsSymbolChildren = 0]
    ELSE st

\* The CA65 directive step.
CA65Step(st, rest, line) ==
    IF rest.pat = "CA65"
    THEN LET id == Len(st.syms) + 1
             s1 == [st EXCEPT !.syms = Append(@, DocumentSymbol(rest.arg, "Method", line))]
             s2 == AttachToScope(s1, id)
             canHaveChildren == rest.kw # ".define"
         IN  IF canHaveChildren
             THEN [s2 EXCEPT !.lastModules = Append(@, id)]
             ELSE s2
    ELSE IF rest.pat = "CA65End"
    THEN [st EXCEPT !.lastModules = Pop(@), !.lastAbsSymbolChildren = 0]
    ELSE st

\* a variant of MacroStep that nests the macro in the open scope frame
MacroStep_Nested(st, rest, line) ==
    IF rest.pat = "Macro"
    THEN LET id == Len(st.syms) + 1
         IN  AttachToScope([st EXCEPT !.syms = Append(@, DocumentSymbol(rest.arg, "Method", line))], id)
    ELSE st

\* The MACRO step: the symbol goes to the root list.
MacroStep(st, rest, line) ==
    IF rest.pat = "Macro"
    THEN LET id == Len(st.syms) + 1
         IN  [st EXCEPT !.syms = Append(@, DocumentSymbol(rest.arg, "Method", line)),
                        !.symbols = Append(@, id)]
    ELSE st

\* a variant of IsEndKeyword that forgets ENDS
IsEndKeyword_OnlyEndModule(kw) == kw = "ENDMODULE"

\* keyword == "endmodule" || keyword == "ends"
IsEndKeyword(kw) == kw \in {"ENDMODULE", "ENDS"}

\* a variant of ModuleStep whose end keyword, on the empty stack, pops the
\* root list
ModuleStep_PopsRoot(st, rest, line) ==
    LET s1 == IF rest.arg # ""
              THEN LET id == Len(st.syms) + 1
                       kind == IF rest.kw = "MODULE" THEN "Module" ELSE "Struct"
                       a == [st EXCEPT !.syms = Append(@, DocumentSymbol(rest.arg, kind, line))]
                   IN  [AttachToScope(a, id) EXCEPT !.lastModules = Append(@, id)]
              ELSE st
        s2 == IF IsEndKeyword(rest.kw)
              THEN IF Len(s1.lastModules) = 0
                   THEN [s1 EXCEPT !.symbols = Pop(@), !.lastAbsSymbolChildren = 0]
                   ELSE [s1 EXCEPT !.lastModules = Pop(@), !.lastAbsSymbolChildren = 0]
              ELSE s1
    IN  [s2 EXCEPT !.lastSymbol = 0, !.lastSymbols = <<>>]

\* The MODULE / STRUCT step (the line matched regexModule or regexStruct).
ModuleStep(st, rest, line) ==
    LET s1 == IF rest.arg # ""
              THEN LET id == Len(st.syms) + 1
                       kind == IF rest.kw = "MODULE" THEN "Module" ELSE "Struct"
                       a == [st EXCEPT !.syms = Append(@, DocumentSymbol(rest.arg, kind, line))]
                   IN  [AttachToScope(a, id) EXCEPT !.lastModules = Append(@, id)]
              ELSE st
        s2 == IF IsEndKeyword(rest.kw)
              THEN [s1 EXCEPT !.lastModules = Pop(@), !.lastAbsSymbolChildren = 0]
              ELSE s1
    IN  [s2 EXCEPT !.lastSymbol = 0, !.lastSymbols = <<>>]

\* elem.kind = kind; elem.detail = match[1] + ' ' + match[2].trimEnd()
Reclassify(ss, ids, kind, detail) ==
    [i \in 1..Len(ss) |->
        IF i \in SeqToSet(ids)
        THEN [ss[i] EXCEPT !.kind = kind, !.detail = detail]
        ELSE ss[i]]

ClassifiedKind(rest) ==
    IF rest.pat = "Const" THEN "Constant"
    ELSE IF rest.pat = "Data" THEN "Field"
    ELSE "undefined"

\* a variant of ClassifyStep that keeps the default kind on an empty line
ClassifyStep_NoRevert(st, rest) ==
    IF st.lastSymbol # 0 /\ rest.pat # "Empty"
    THEN LET kind == ClassifiedKind(rest)
             s2 == IF kind # "undefined"
                   THEN [st EXCEPT
                           !.syms = Reclassify(@, st.lastSymbols, kind, rest.kw \o " " \o rest.arg),
                           !.defaultSymbolKind = kind]
                   ELSE st
         IN  [s2 EXCEPT !.lastSymbol = 0, !.lastSymbols = <<>>]
    ELSE st

\* The data / constant classification step.
ClassifyStep(st, rest) ==
    LET s1 == IF rest.pat = "Empty"
              THEN [st EXCEPT !.defaultSymbolKind = "Function"]
              ELSE st
    IN  IF s1.lastSymbol # 0 /\ rest.pat # "Empty"
        THEN LET kind == ClassifiedKind(rest)
                 s2 == IF kind # "undefined"
                       THEN [s1 EXCEPT
                               !.syms = Reclassify(@, s1.lastSymbols, kind, rest.kw \o " " \o rest.arg),
                               !.defaultSymbolKind = kind]
                       ELSE s1
             IN  [s2 EXCEPT !.lastSymbol = 0, !.lastSymbols = <<>>]
        ELSE s1

\* One iteration of the loop over the lines.  When a macro pattern exists
\* the 'continue' that follows the MACRO check ends the iteration, whether
\* or not the line matched it.
ScanLine(st, l, line, config, hasRegexMacro) ==
    LET s1 == LabelStep(st, l, line, config)
        rest == LineContents(l, config)
        s2 == CA65Step(s1, rest, line)
    IN  IF hasRegexMacro
        THEN MacroStep(s2, rest, line)
        ELSE IF rest.pat \in {"Module", "Struct"}
             THEN ModuleStep(s2, rest, line)
             ELSE ClassifyStep(s2, rest)

\* provideDocumentSymbols up to the loop: the configuration check.
DsStart ==
    /\ dsPc = "idle"
    /\ \E cfg \in DocConfigs, hasRegexMacro \in BOOLEAN :
          /\ dsConfig' = cfg
          /\ regexMacro' = hasRegexMacro
          /\ IF ~(cfg.defined /\ cfg.enableOutlineView)
             THEN dsPc' = "done" /\ dsResult' = "undefined"
             ELSE dsPc' = "scan" /\ dsResult' = "pending"
    /\ UNCHANGED <<lines, syms, symbols, lastSymbol, lastSymbols,
                   lastAbsSymbolChildren, lastModules, defaultSymbolKind,
                   wsVars, refVars, rxVars, extVars>>

\* The loop body on the next line l of the document.
DsScanLine(l, maxLen) ==
    /\ dsPc = "scan"
    /\ Len(lines) < maxLen
    /\ LET st == ScanLine(ScanState, l, Len(lines), dsConfig, regexMacro)
       IN  /\ syms' = st.syms
           /\ symbols' = st.symbols
           /\ lastSymbol' = st.lastSymbol
           /\ lastSymbols' = st.lastSymbols
           /\ lastAbsSymbolChildren' = st.lastAbsSymbolChildren
           /\ lastModules' = st.lastModules
           /\ defaultSymbolKind' = st.defaultSymbolKind
    /\ lines' = Append(lines, l)
    /\ UNCHANGED <<dsPc, dsConfig, regexMacro, dsResult, wsVars, refVars, rxVars, extVars>>

\* The end of the document: return symbols.
DsReturn ==
    /\ dsPc = "scan"
    /\ dsPc' = "done"
    /\ dsResult' = "symbols"
    /\ UNCHANGED <<dsConfig, regexMacro, lines, syms, symbols, lastSymbol,
                   lastSymbols, lastAbsSymbolChildren, lastModules,
                   defaultSymbolKind, wsVars, refVars, rxVars, extVars>>

DsInit ==
    /\ dsPc = "idle"
    /\ dsConfig = NoDocConfig
    /\ regexMacro = FALSE
    /\ lines = <<>>
    /\ syms = <<>>
    /\ symbols = <<>>
    /\ lastSymbol = 0
    /\ lastSymbols = <<>>
    /\ lastAbsSymbolChildren = 0
    /\ lastModules = <<>>
    /\ defaultSymbolKind = "Function"
    /\ dsResult = "pending"

(***************************************************************************)
(* provideWorkspaceSymbols / getWsSymbols                                  *)
(***************************************************************************)
Roots == 1..MaxRoots

NoConfig == [defined |-> FALSE, enableWorkspaceSymbols |-> FALSE,
             workspaceSymbolsRequiredLength |-> 0, labelsExcludes |-> <<>>]

WsConfigs == {NoConfig} \cup
             [defined : {TRUE}, enableWorkspaceSymbols : BOOLEAN,
              workspaceSymbolsRequiredLength : {0, 2},
              labelsExcludes : ExcludeLists]

\* what grepMultiple may find in a folder: loc.symbol of each location
GrepSymbols == {<<>>, <<"foo">>, <<"bar">>, <<"foo", "bar">>, <<"baz", "foo">>}

\* new vscode.SymbolInformation(text, undefined, '', location)
SymbolInformation(text, root, idx) == [name |-> text, root |-> root, idx |-> idx]

\* a variant of GetWsSymbols that keeps excluded names
GetWsSymbols_NoFilter(config, locs, root) ==
    [i \in 1..Len(locs) |-> SymbolInformation(locs[i], root, i)]

\* getWsSymbols, once grepMultiple has returned locs: the locations whose
\* text is in config.labelsExcludes are skipped
GetWsSymbols(config, locs, root) ==
    SelectSeq([i \in 1..Len(locs) |-> SymbolInformation(locs[i], root, i)],
              LAMBDA sym : sym.name \notin SeqToSet(config.labelsExcludes))

WsCall ==
    /\ wsPc = "idle"
    /\ \E n \in 0..MaxRoots, cfg \in [Roots -> WsConfigs], qlen \in 0..MaxQueryLen :
          /\ wsFolders' = [i \in 1..n |-> i]
          /\ configs' = cfg
          /\ wsQueryLen' = qlen
          /\ wsConfigsAtCall' = cfg
    /\ wsPc' = "loop"
    /\ wsI' = 1
    /\ wsSymbols' = <<>>
    /\ UNCHANGED <<wsToken, wsResolved, wsSearched, wsFound, wsAtCancel, wsConfig,
                   dsVars, refVars, rxVars, extVars>>

\* config of the folder the loop is at
WsConfigHere == configs[wsFolders[wsI]]

WsAtLoopHead == wsPc = "loop" /\ wsI <= Len(wsFolders)

\* a variant of WsCancelled that resolves with the symbols gathered
WsCancelled_KeepsGathered ==
    /\ WsAtLoopHead
    /\ wsToken
    /\ wsResolved' = "symbols"
    /\ wsPc' = "done"
    /\ UNCHANGED <<wsFolders, configs, wsQueryLen, wsToken, wsI, wsSymbols,
                   wsSearched, wsFound, wsAtCancel, wsConfigsAtCall, wsConfig, dsVars, refVars, rxVars, extVars>>

\* if (token.isCancellationRequested) { resolve(undefined); return; }
WsCancelled ==
    /\ WsAtLoopHead
    /\ wsToken
    /\ wsResolved' = "undefined"
    /\ wsPc' = "done"
    /\ UNCHANGED <<wsFolders, configs, wsQueryLen, wsToken, wsI, wsSymbols,
                   wsSearched, wsFound, wsAtCancel, wsConfigsAtCall, wsConfig, dsVars, refVars, rxVars, extVars>>

\* a variant of WsSkipFolder that leaves the loop instead of continuing it
WsSkipFolder_EndsLoop ==
    /\ WsAtLoopHead
    /\ ~wsToken
    /\ \/ ~(WsConfigHere.defined /\ WsConfigHere.enableWorkspaceSymbols)
       \/ wsQueryLen < WsConfigHere.workspaceSymbolsRequiredLength
    /\ wsI' = Len(wsFolders) + 1
    /\ UNCHANGED <<wsPc, wsFolders, configs, wsQueryLen, wsToken, wsSymbols,
                   wsResolved, wsSearched, wsFound, wsAtCancel, wsConfigsAtCall, wsConfig, dsVars, refVars, rxVars, extVars>>

\* the two 'continue's: no configuration or feature off, or the query too short
WsSkipFolder ==
    /\ WsAtLoopHead
    /\ ~wsToken
    /\ \/ ~(WsConfigHere.defined /\ WsConfigHere.enableWorkspaceSymbols)
       \/ wsQueryLen < WsConfigHere.workspaceSymbolsRequiredLength
    /\ wsI' = wsI + 1
    /\ UNCHANGED <<wsPc, wsFolders, configs, wsQueryLen, wsToken, wsSymbols,
                   wsResolved, wsSearched, wsFound, wsAtCancel, wsConfigsAtCall, wsConfig, dsVars, refVars, rxVars, extVars>>

\* a variant of WsSearchFolder that does not look at the required length
WsSearchFolder_AnyLength ==
    /\ WsAtLoopHead
    /\ ~wsToken
    /\ WsConfigHere.defined /\ WsConfigHere.enableWorkspaceSymbols
    /\ wsPc' = "await"
    /\ wsConfig' = WsConfigHere
    /\ wsSearched' = Append(wsSearched, wsFolders[wsI])
    /\ UNCHANGED <<wsFolders, configs, wsQueryLen, wsToken, wsI, wsSymbols,
                   wsResolved, wsFound, wsAtCancel, wsConfigsAtCall, dsVars,
                   refVars, rxVars, extVars>>

\* await this.getWsSymbols(config, query): grepMultiple is called
WsSearchFolder ==
    /\ WsAtLoopHead
    /\ ~wsToken
    /\ WsConfigHere.defined /\ WsConfigHere.enableWorkspaceSymbols
    /\ ~(wsQueryLen < WsConfigHere.workspaceSymbolsRequiredLength)
    /\ wsPc' = "await"
    /\ wsConfig' = WsConfigHere
    /\ wsSearched' = Append(wsSearched, wsFolders[wsI])
    /\ UNCHANGED <<wsFolders, configs, wsQueryLen, wsToken, wsI, wsSymbols,
                   wsResolved, wsFound, wsAtCancel, wsConfigsAtCall, dsVars,
                   refVars, rxVars, extVars>>

\* grepMultiple returns locs; getWsSymbols filters; symbols.push(...wsSymbols)
WsSearchDone ==
    /\ wsPc = "await"
    /\ \E locs \in GrepSymbols :
          /\ wsFound' = Append(wsFound, locs)
          /\ wsSymbols' = wsSymbols \o GetWsSymbols(wsConfig, locs, wsFolders[wsI])
    /\ wsI' = wsI + 1
    /\ wsPc' = "loop"
    /\ wsConfig' = NoConfig
    /\ UNCHANGED <<wsFolders, configs, wsQueryLen, wsToken, wsResolved,
                   wsSearched, wsAtCancel, wsConfigsAtCall, dsVars, refVars,
                   rxVars, extVars>>

\* resolve(symbols) after the loop
WsResolve ==
    /\ wsPc = "loop"
    /\ wsI > Len(wsFolders)
    /\ wsResolved' = "symbols"
    /\ wsPc' = "done"
    /\ UNCHANGED <<wsFolders, configs, wsQueryLen, wsToken, wsI, wsSymbols,
                   wsSearched, wsFound, wsAtCancel, wsConfigsAtCall, wsConfig, dsVars, refVars, rxVars, extVars>>

\* The host requests cancellation while the call is running.  wsAtCancel
\* notes how many folders were searched, whether a search was in flight,
\* and whether the loop still had a cancellation check ahead.
WsCancel ==
    /\ wsPc \in {"loop", "await"}
    /\ ~wsToken
    /\ wsToken' = TRUE
    /\ wsAtCancel' = [completed |-> Len(wsFound),
                      inFlight |-> wsPc = "await",
                      checkAhead |-> \/ wsPc = "loop" /\ wsI <= Len(wsFolders)
                                     \/ wsPc = "await" /\ wsI < Len(wsFolders)]
    /\ UNCHANGED <<wsPc, wsFolders, configs, wsQueryLen, wsI, wsSymbols,
                   wsResolved, wsSearched, wsFound, wsConfigsAtCall, wsConfig, dsVars, refVars, rxVars, extVars>>

WsInit ==
    /\ wsPc = "idle"
    /\ wsFolders = <<>>
    /\ configs = [r \in Roots |-> NoConfig]
    /\ wsQueryLen = 0
    /\ wsToken = FALSE
    /\ wsI = 1
    /\ wsSymbols = <<>>
    /\ wsResolved = "pending"
    /\ wsSearched = <<>>
    /\ wsFound = <<>>
    /\ wsAtCancel = [completed |-> 0, inFlight |-> FALSE, checkAhead |-> FALSE]
    /\ wsConfigsAtCall = [r \in Roots |-> NoConfig]
    /\ wsConfig = NoConfig

NextWs ==
    \/ WsCall
    \/ WsCancelled
    \/ WsSkipFolder
    \/ WsSearchFolder
    \/ WsSearchDone
    \/ WsResolve
    \/ WsCancel

(***************************************************************************)
(* provideReferences                                                       *)
(***************************************************************************)
RefFiles == <<"a.asm", "b.asm">>

Location(file, line) == [file |-> file, line |-> line]

\* the places where grep can find the search word, in file-then-line order
RefPlaces ==
    [i \in 1..(Len(RefFiles) * (MaxRefLine + 1)) |->
        Location(RefFiles[((i - 1) \div (MaxRefLine + 1)) + 1], (i - 1) % (MaxRefLine + 1))]

\* A candidate location: a place, and whether the match there passes the
\* label-boundary check of the reduction (it is the whole word).
Candidate(loc, whole) == [loc |-> loc, whole |-> whole]

\* what grep may return: for each place no match, a whole-word match or
\* a match inside a longer identifier, in file-then-line order
GrepResults ==
    LET Marks == [1..Len(RefPlaces) -> {"none", "whole", "part"}]
        Hits(m) == SelectSeq([i \in 1..Len(RefPlaces) |-> i], LAMBDA i : m[i] # "none")
    IN  {[k \in 1..Len(Hits(m)) |-> Candidate(RefPlaces[Hits(m)[k]], m[Hits(m)[k]] = "whole")]
            : m \in Marks}

RefConfigs == {[defined |-> FALSE, enableFindAllReferences |-> FALSE, labelsExcludes |-> <<>>]}
              \cup [defined : {TRUE}, enableFindAllReferences : BOOLEAN,
                    labelsExcludes : ExcludeLists]

\* the word under the cursor (document.getText(getWordRangeAtPosition))
RefSearchWord == "foo"

\* The reduction: the candidates that pass the label-boundary check, without
\* the one at the origin unless declarations are included, collapsed to the
\* best single match (same file as the origin first, then first in
\* file-then-line order) when only one is wanted.
ReduceLocations(locations, origin, includeDeclaration, uniqueOnly) ==
    LET whole == SelectSeq(locations, LAMBDA c : c.whole)
        kept == IF includeDeclaration THEN whole
                ELSE SelectSeq(whole, LAMBDA c : c.loc # origin)
        same == SelectSeq(kept, LAMBDA c : c.loc.file = origin.file)
        locs(cs) == [i \in 1..Len(cs) |-> cs[i].loc]
    IN  IF ~uniqueOnly \/ Len(kept) <= 1 THEN locs(kept)
        ELSE IF Len(same) > 0 THEN <<same[1].loc>>
        ELSE <<kept[1].loc>>

\* provideReferences up to 'await grep(...)'
RefCall ==
    /\ refPc = "idle"
    /\ \E cfg \in RefConfigs, line \in 0..MaxRefLine, incl \in BOOLEAN :
          /\ refConfig' = cfg
          /\ refOrigin' = Location(RefFiles[1], line)
          /\ refIncludeDeclaration' = incl
          /\ IF ~(cfg.defined /\ cfg.enableFindAllReferences)
             THEN refPc' = "done" /\ refResult' = "undefined"
             ELSE refPc' = "grep" /\ refResult' = "pending"
    /\ UNCHANGED <<refToken, refCandidates, refLocations, dsVars, wsVars, rxVars, extVars>>

\* grep returns; reduceLocations(regexLbls, locations, document.fileName,
\* position, false, true, /\w/); return reducedLocations
RefGrepDone ==
    /\ refPc = "grep"
    /\ \E locations \in GrepResults :
          /\ refCandidates' = locations
          /\ refLocations' = ReduceLocations(locations, refOrigin, FALSE, TRUE)
    /\ refResult' = "locations"
    /\ refPc' = "done"
    /\ UNCHANGED <<refConfig, refOrigin, refIncludeDeclaration, refToken, dsVars,
                   wsVars, rxVars, extVars>>

\* The host requests cancellation while grep is in flight.
RefCancel ==
    /\ refPc = "grep"
    /\ ~refToken
    /\ refToken' = TRUE
    /\ UNCHANGED <<refPc, refConfig, refOrigin, refIncludeDeclaration,
                   refCandidates, refResult, refLocations, dsVars, wsVars, rxVars, extVars>>

RefInit ==
    /\ refPc = "idle"
    /\ refConfig = [defined |-> FALSE, enableFindAllReferences |-> FALSE,
                    labelsExcludes |-> <<>>]
    /\ refOrigin = Location(RefFiles[1], 0)
    /\ refIncludeDeclaration = FALSE
    /\ refToken = FALSE
    /\ refCandidates = <<>>
    /\ refResult = "pending"
    /\ refLocations = <<>>

NextRef ==
    \/ RefCall
    \/ RefGrepDone
    \/ RefCancel

(***************************************************************************)
(* CompletionRegexes: the patterns of the workspace-symbol search.         *)
(***************************************************************************)
\* no pattern is being built
RxIdle ==
    /\ rxPc = "idle"
    /\ rxQuery = <<>>
    /\ rxLabel = <<>>
    /\ rxLanguageId = "asm-collection"
    /\ rxCfg = [labelsWithColons |-> FALSE, labelsWithoutColons |-> FALSE]
    /\ rxRegexes = <<>>
    /\ rxMatch = FALSE

\* the languages of LanguageId
LanguageIds == {"asm-collection", "asm-list-file"}

UpperCase == {"S", "A", "R", "O"}

LowerCase == {"a", "c", "d", "e", "h", "n", "o", "r", "s", "t", "u", "y"}

\* \w
IsWordChar(c) == c \in UpperCase \cup LowerCase \cup {"_"}

\* [\w\.]
IsLabelChar(c) == IsWordChar(c) \/ c = "."

\* \s
IsSpace(c) == c = " "

\* the 'i' flag: characters are compared without case
ToLower(c) ==
    CASE c = "S" -> "s" [] c = "A" -> "a" [] c = "R" -> "r" [] c = "O" -> "o"
      [] OTHER -> c

\* the token of the fuzzy word that skips word characters
AnyWord == "\\w*"

\* CommonRegexes.regexPrepareFuzzy: "sn" becomes \w*s\w*n, as a sequence of
\* pattern tokens
RegexPrepareFuzzy(query) ==
    [i \in 1..(2 * Len(query)) |-> IF i % 2 = 1 THEN AnyWord ELSE query[i \div 2]]

\* new RegExp('^(.*)\\b' + fuzzy + '[\\w\\.]*:(?:[^:]|$)', 'i') for list
\* files, and with the prefix (^@?[\w\.]*|^.*\s@?[\w\.]*) otherwise
RegexEveryLabelColonForWord(fuzzySearchWord, languageId) ==
    [kind |-> "labelColon",
     prefix |-> IF languageId = "asm-list-file" THEN "any" ELSE "label",
     fuzzy |-> fuzzySearchWord]

\* new RegExp('^(([^0-9 ][\\w\\.]*)?)\\b' + fuzzy + '[\\w\\.]*\\b(?![:\\w\\.])', 'i')
RegexEveryLabelWithoutColonForWord(fuzzySearchWord) ==
    [kind |-> "labelWithoutColon", prefix |-> "noDigit", fuzzy |-> fuzzySearchWord]

\* a variant of regexesEveryLabelForWord that adds the without-colon
\* pattern for every language
RegexesEveryLabelForWord_AnyLanguage(fuzzySearchWord, cfg, languageId) ==
    (IF cfg.labelsWithColons
     THEN <<RegexEveryLabelColonForWord(fuzzySearchWord, languageId)>>
     ELSE <<>>)
    \o (IF cfg.labelsWithoutColons
        THEN <<RegexEveryLabelWithoutColonForWord(fuzzySearchWord)>>
        ELSE <<>>)

\* regexesEveryLabelForWord
RegexesEveryLabelForWord(fuzzySearchWord, cfg, languageId) ==
    (IF cfg.labelsWithColons
     THEN <<RegexEveryLabelColonForWord(fuzzySearchWord, languageId)>>
     ELSE <<>>)
    \o (IF cfg.labelsWithoutColons /\ languageId = "asm-collection"
        THEN <<RegexEveryLabelWithoutColonForWord(fuzzySearchWord)>>
        ELSE <<>>)

\* the positions where the fuzzy word can end when it starts after pos
\* characters of the line and its tokens from the k-th on are matched
RECURSIVE FuzzyEnds(_, _, _, _)
FuzzyEnds(line, pos, toks, k) ==
    IF k > Len(toks) THEN {pos}
    ELSE IF toks[k] = AnyWord
    THEN UNION {FuzzyEnds(line, q, toks, k + 1) :
                  q \in {r \in pos..Len(line) :
                            \A i \in (pos + 1)..r : IsWordChar(line[i])}}
    ELSE IF pos < Len(line) /\ ToLower(line[pos + 1]) = ToLower(toks[k])
    THEN FuzzyEnds(line, pos + 1, toks, k + 1)
    ELSE {}

\* \b after p characters of the line
WordBoundary(line, p) ==
    (p >= 1 /\ IsWordChar(line[p])) # (p < Len(line) /\ IsWordChar(line[p + 1]))

\* a variant of PrefixCollection without dots: ^@?\w* or ^.*\s@?\w*
PrefixCollection_NoDots(line, p) ==
    \/ \A i \in 1..p : IsWordChar(line[i]) \/ (i = 1 /\ line[i] = "@")
    \/ \E w \in 1..p :
          /\ IsSpace(line[w])
          /\ \A i \in (w + 1)..p : IsWordChar(line[i]) \/ (i = w + 1 /\ line[i] = "@")

\* (^@?[\w\.]*|^.*\s@?[\w\.]*) matches the first p characters of the line
PrefixCollection(line, p) ==
    \/ \A i \in 1..p : IsLabelChar(line[i]) \/ (i = 1 /\ line[i] = "@")
    \/ \E w \in 1..p :
          /\ IsSpace(line[w])
          /\ \A i \in (w + 1)..p : IsLabelChar(line[i]) \/ (i = w + 1 /\ line[i] = "@")

\* [\w\.]*:(?:[^:]|$) matches after e characters of the line
ColonTail(line, e) ==
    \E q \in e..(Len(line) - 1) :
        /\ \A i \in (e + 1)..q : IsLabelChar(line[i])
        /\ line[q + 1] = ":"
        /\ (q + 1 = Len(line) \/ line[q + 2] # ":")

\* regex.exec(line) # null, for a with-colon pattern
Exec(regex, line) ==
    \E p \in 0..Len(line) :
        /\ regex.prefix = "any" \/ PrefixCollection(line, p)
        /\ WordBoundary(line, p)
        /\ \E e \in FuzzyEnds(line, p, regex.fuzzy, 1) : ColonTail(line, e)

\* the characters of the identifiers and of the queries that are tried
IdChars == {"S", "n", "o", "."}

QueryChars == {"s", "n"}

\* the sequences over chars of length lo..hi
Words(chars, lo, hi) == UNION {[1..n -> chars] : n \in lo..hi}

\* identifiers: they end with a word character
Ids == {w \in Words(IdChars, 1, MaxIdLen) : IsWordChar(w[Len(w)])}

Queries == Words(QueryChars, 0, MaxQueryChars)

LabelCfgs == [labelsWithColons : BOOLEAN, labelsWithoutColons : BOOLEAN]

\* a query, a line `<identifier>:`, a language and a configuration arrive
RxCall ==
    /\ rxPc = "idle"
    /\ rxQuery' \in Queries
    /\ rxLabel' \in Ids
    /\ rxLanguageId' \in LanguageIds
    /\ rxCfg' \in LabelCfgs
    /\ rxPc' = "input"
    /\ UNCHANGED <<rxRegexes, rxMatch, dsVars, wsVars, refVars, extVars>>

\* regexes = CompletionRegexes.regexesEveryLabelForWord(fuzzy, config, languageId)
RxBuild ==
    /\ rxPc = "input"
    /\ rxRegexes' = RegexesEveryLabelForWord(RegexPrepareFuzzy(rxQuery), rxCfg, rxLanguageId)
    /\ rxPc' = "built"
    /\ UNCHANGED <<rxQuery, rxLabel, rxLanguageId, rxCfg, rxMatch, dsVars, wsVars,
                   refVars, extVars>>

\* the with-colon pattern is applied to the line `<identifier>:`
RxExec ==
    /\ rxPc = "built"
    /\ rxMatch' = Exec(RegexEveryLabelColonForWord(RegexPrepareFuzzy(rxQuery), rxLanguageId),
                       rxLabel \o <<":">>)
    /\ rxPc' = "done"
    /\ UNCHANGED <<rxQuery, rxLabel, rxLanguageId, rxCfg, rxRegexes, dsVars, wsVars,
                   refVars, extVars>>

NextRx ==
    \/ RxCall
    \/ RxBuild
    \/ RxExec

\* ---------------------------------------------------------------------
\* extension.ts: activate, configure, removeProvider
\* ---------------------------------------------------------------------

\* the number of configure calls explored (the one of activate included)
MaxConfigures == 3

\* the nine module-level registration variables, in the order configure
\* removes and registers them
ProviderKinds ==
    <<"codeLens", "hover", "completion", "definition", "reference", "rename",
      "documentSymbol", "workspaceSymbol", "folding">>

\* the kinds registered only when their Config.globalEnable... toggle is set
GatedKinds == {ProviderKinds[k] : k \in 1..8}

\* what activate pushes before it calls configure
ActivateEntries == <<"whatsNew", "calcviewExplorer", "calcviewDebug">>

\* what activate pushes after it called configure
ActivateListeners == <<"onDidChangeConfiguration", "onDidChangeWorkspaceFolders">>

\* the toggle settings explored: all on, all off, one on, one off
ToggleVectors ==
    {[k \in GatedKinds |-> b] : b \in BOOLEAN}
    \cup {[k \in GatedKinds |-> k = on] : on \in GatedKinds}
    \cup {[k \in GatedKinds |-> k # off] : off \in GatedKinds}

AllEnabled == [k \in GatedKinds |-> TRUE]

\* the part of the state configure works on
ExtState ==
    [disposables |-> disposables, disposed |-> disposed,
     subscriptions |-> subscriptions, reg |-> reg]

\* Array.prototype.indexOf: the first position (from 0) or -1
IndexOf(s, x) ==
    IF \E i \in 1..Len(s) : s[i] = x
    THEN (CHOOSE i \in 1..Len(s) : s[i] = x /\ \A j \in 1..(i - 1) : s[j] # x) - 1
    ELSE -1

\* Array.prototype.splice(start, 1): a negative start counts from the end
Splice(s, start) ==
    LET from == IF start < 0
                THEN (IF Len(s) + start < 0 THEN 0 ELSE Len(s) + start)
                ELSE (IF start > Len(s) THEN Len(s) ELSE start)
    IN  [i \in 1..(IF from < Len(s) THEN Len(s) - 1 ELSE Len(s)) |->
            IF i <= from THEN s[i] ELSE s[i + 1]]

\* a variant that disposes nothing
RemoveProvider_NoDispose(st, pv) ==
    IF pv = 0 THEN st
    ELSE [st EXCEPT !.subscriptions = Splice(@, IndexOf(@, pv))]

\* removeProvider(pv, context)
RemoveProvider(st, pv) ==
    IF pv = 0 THEN st
    ELSE [st EXCEPT !.disposed = @ \cup {pv},
                    !.subscriptions = Splice(@, IndexOf(@, pv))]

\* the nine removeProvider calls at the head of configure, from the k-th on
RECURSIVE RemoveProviders(_, _)
RemoveProviders(st, k) ==
    IF k > Len(ProviderKinds) THEN st
    ELSE RemoveProviders(RemoveProvider(st, st.reg[ProviderKinds[k]]), k + 1)

\* context.subscriptions.push(<a new disposable>)
PushNew(st, what, n) ==
    [st EXCEPT !.disposables = Append(@, [what |-> what, configure |-> n]),
               !.subscriptions = Append(@, Len(st.disposables) + 1)]

\* regX = vscode.languages.register...; context.subscriptions.push(regX)
Register(st, kind, n) ==
    [PushNew(st, kind, n) EXCEPT !.reg[kind] = Len(st.disposables) + 1]

\* the registrations at the tail of configure, from the k-th kind on: a
\* gated kind is registered when its toggle is set, folding always
RECURSIVE RegisterProviders(_, _, _, _)
RegisterProviders(st, toggles, k, n) ==
    IF k > Len(ProviderKinds) THEN st
    ELSE LET kind == ProviderKinds[k]
         IN  RegisterProviders(
                 IF kind \notin GatedKinds \/ toggles[kind]
                 THEN Register(st, kind, n) ELSE st,
                 toggles, k + 1, n)

\* configure, on the registrations: remove all nine, then register
ConfigureState(st, toggles, n) ==
    RegisterProviders(RemoveProviders(st, 1), toggles, 1, n)

RECURSIVE PushAll(_, _, _, _)
PushAll(st, entries, k, n) ==
    IF k > Len(entries) THEN st
    ELSE PushAll(PushNew(st, entries[k], n), entries, k + 1, n)

\* Config.init() with the settings read: the toggles and the per-root
\* configurations are replaced as a whole
ConfigInit(toggles, cfg) ==
    /\ globalEnable' = toggles
    /\ configs' = cfg

\* activate(context): three pushes, configure, the two listeners
Activate(toggles, cfg) ==
    /\ ~extActivated
    /\ extActivated' = TRUE
    /\ LET st == PushAll(ConfigureState(PushAll(ExtState, ActivateEntries, 1, 0),
                                        toggles, 1),
                         ActivateListeners, 1, 0)
       IN  /\ disposables' = st.disposables
           /\ disposed' = st.disposed
           /\ subscriptions' = st.subscriptions
           /\ reg' = st.reg
    /\ ConfigInit(toggles, cfg)
    /\ extConfigures' = 1
    /\ UNCHANGED <<wsPc, wsFolders, wsQueryLen, wsToken, wsI, wsSymbols,
                   wsResolved, wsSearched, wsFound, wsAtCancel, wsConfigsAtCall, wsConfig,
                   dsVars, refVars, rxVars>>

\* configure(context, event), called by either listener
Configure(toggles, cfg) ==
    /\ extActivated
    /\ extConfigures < MaxConfigures
    /\ LET st == ConfigureState(ExtState, toggles, extConfigures + 1)
       IN  /\ disposables' = st.disposables
           /\ disposed' = st.disposed
           /\ subscriptions' = st.subscriptions
           /\ reg' = st.reg
    /\ ConfigInit(toggles, cfg)
    /\ extConfigures' = extConfigures + 1
    /\ UNCHANGED <<extActivated, wsPc, wsFolders, wsQueryLen, wsToken, wsI,
                   wsSymbols, wsResolved, wsSearched, wsFound, wsAtCancel,
                   wsConfigsAtCall, wsConfig, dsVars, refVars, rxVars>>

ExtInit ==
    /\ extActivated = FALSE
    /\ disposables = <<>>
    /\ disposed = {}
    /\ subscriptions = <<>>
    /\ reg = [k \in {ProviderKinds[i] : i \in 1..Len(ProviderKinds)} |-> 0]
    /\ globalEnable = [k \in GatedKinds |-> FALSE]
    /\ extConfigures = 0

\* activation and settings changes that leave the per-root configurations
\* as they are
NextExt ==
    \/ \E t \in ToggleVectors : Activate(t, configs)
    \/ \E t \in ToggleVectors : Configure(t, configs)

Init == DsInit /\ WsInit /\ RefInit /\ RxIdle /\ ExtInit

SpecExt == Init /\ [][NextExt]_vars

\* the per-root configurations a settings change installs while a
\* workspace symbol request runs: no root configured, or every root enabled
ReplacedConfigs ==
    {[r \in Roots |-> c] :
        c \in {NoConfig,
               [defined |-> TRUE, enableWorkspaceSymbols |-> TRUE,
                workspaceSymbolsRequiredLength |-> 0, labelsExcludes |-> <<>>]}}

\* workspace symbol requests with settings changes in between: the
\* extension is activated before the first request, and a listener runs
\* only while no request is in its synchronous part
NextReconfigure ==
    \/ NextWs
    \/ wsPc = "idle" /\ \E cfg \in ReplacedConfigs : Activate(AllEnabled, cfg)
    \/ wsPc # "loop" /\ \E cfg \in ReplacedConfigs : Configure(AllEnabled, cfg)

SpecReconfigure == Init /\ [][NextReconfigure]_vars

\* The promise of `await this.getWsSymbols(config, query)` rejects: the
\* async executor has no try/catch and takes no reject function, so it
\* ends there, its own promise rejects, and resolve is not called.
WsSearchFails ==
    /\ wsPc = "await"
    /\ wsPc' = "rejected"
    /\ wsConfig' = NoConfig
    /\ UNCHANGED <<wsFolders, configs, wsQueryLen, wsToken, wsI, wsSymbols,
                   wsResolved, wsSearched, wsFound, wsAtCancel, wsConfigsAtCall,
                   dsVars, refVars, rxVars, extVars>>

\* workspace symbol requests whose searches may fail
NextSettle ==
    \/ NextWs
    \/ WsSearchFails

\* The executor's synchronous steps always run, and a search that was
\* started ends one way or the other; the host need not call or cancel.
SpecSettle ==
    /\ Init
    /\ [][NextSettle]_vars
    /\ WF_vars(WsCancelled \/ WsSkipFolder \/ WsSearchFolder \/ WsResolve)
    /\ WF_vars(WsSearchDone \/ WsSearchFails)

\* the same requests when no search fails
SpecSettleNoFailure ==
    /\ Init
    /\ [][NextWs]_vars
    /\ WF_vars(WsCancelled \/ WsSkipFolder \/ WsSearchFolder \/ WsResolve)
    /\ WF_vars(WsSearchDone)

SpecRx == Init /\ [][NextRx]_vars

\* documents over the full line alphabet
NextScan ==
    \/ DsStart
    \/ \E l \in ScanLines : DsScanLine(l, MaxLines)
    \/ DsReturn

\* documents of the outline scenarios
NextOutline ==
    \/ DsStart
    \/ \E l \in OutlineLines : DsScanLine(l, MaxOutlineLines)
    \/ DsReturn

\* documents of scope keywords
NextScope ==
    \/ DsStart
    \/ \E l \in ScopeLines : DsScanLine(l, MaxScopeLines)
    \/ DsReturn

\* documents of block openers and closers
NextBlocks ==
    \/ DsStart
    \/ \E l \in BlockLines : DsScanLine(l, MaxBlockLines)
    \/ DsReturn

SpecBlocks == Init /\ [][NextBlocks]_vars

SpecScan == Init /\ [][NextScan]_vars

SpecOutline == Init /\ [][NextOutline]_vars

SpecScope == Init /\ [][NextScope]_vars

SpecWs == Init /\ [][NextWs]_vars

SpecRef == Init /\ [][NextRef]_vars

\* one request per behaviour: a workspace-symbol or a find-references call
NextSearch ==
    \/ refPc = "idle" /\ NextWs
    \/ wsPc = "idle" /\ NextRef

SpecSearch == Init /\ [][NextSearch]_vars

\* one request per behaviour, to any of the three providers
NextRequest ==
    \/ refPc = "idle" /\ dsPc = "idle" /\ NextWs
    \/ wsPc = "idle" /\ dsPc = "idle" /\ NextRef
    \/ wsPc = "idle" /\ refPc = "idle" /\ NextScope

SpecRequest == Init /\ [][NextRequest]_vars


(***************************************************************************)
(* The outline: the tree below the root list.                              *)
(***************************************************************************)
RECURSIVE Tree(_)
Tree(id) ==
    [name |-> syms[id].name, kind |-> syms[id].kind, detail |-> syms[id].detail,
     children |-> [i \in 1..Len(syms[id].children) |-> Tree(syms[id].children[i])]]

Outline == [i \in 1..Len(symbols) |-> Tree(symbols[i])]

\* a leaf or inner node of an expected outline
Node(name, kind, detail, children) ==
    [name |-> name, kind |-> kind, detail |-> detail, children |-> children]

RECURSIVE Descendants(_)
Descendants(id) ==
    {id} \cup UNION {Descendants(c) : c \in SeqToSet(syms[id].children)}

\* the symbols in the returned tree
TreeIds == UNION {Descendants(r) : r \in SeqToSet(symbols)}

Parents(id) == {p \in 1..Len(syms) : id \in SeqToSet(syms[p].children)}

InRoot(id) == id \in SeqToSet(symbols)

LabelKinds == {"Function", "Constant", "Field"}

\* line k of the document (1-based) declares a label that is not excluded
DeclaresLabel(k) ==
    /\ HasLabel(lines[k])
    /\ LabelText(lines[k]) \notin ({"include"} \cup SeqToSet(dsConfig.labelsExcludes))

\* the symbol of the label declared on line k
LabelSym(k) ==
    CHOOSE id \in 1..Len(syms) : syms[id].line = k - 1 /\ syms[id].kind \in LabelKinds

(***************************************************************************)
(* C1: scanning MODULE foo / bar: nop / .loop: nop / ENDMODULE with the    *)
(* outline enabled and no exclusions returns exactly                       *)
(* [Module foo -> [bar (Function) -> [.loop (Function)]]].                 *)
(***************************************************************************)
C1_Doc == <<Line(NoLabel, RModule), Line(Lbl("", "bar"), RCode),
            Line(Lbl(".", "loop"), RCode), Line(NoLabel, REndModule)>>

C1_Expected ==
    <<Node("foo", "Module", "",
        <<Node("bar", "Function", "",
            <<Node(".loop", "Function", "", <<>>)>>)>>)>>

\* C1: once the document MODULE foo / bar: nop / .loop: nop / ENDMODULE is
\* scanned with the outline enabled, the outline is foo (Module) holding
\* bar (Function) holding .loop.
C1_ModuleScenario ==
    (dsResult = "symbols" /\ lines = C1_Doc /\ dsConfig.labelsExcludes = <<>>)
        => Outline = C1_Expected

(***************************************************************************)
(* C2: when the text after the label matches the constant pattern, every   *)
(* pending label (the one on this line and those buffered before) has      *)
(* kind Constant and detail "<directive> <operand>" after the line; with   *)
(* the data pattern, kind Field.                                           *)
(***************************************************************************)
\* the labels pending once the label step of line l is done
C2_Pending(l) ==
    SeqToSet(lastSymbols) \cup
        (IF HasLabel(l) /\ LabelText(l) \notin ({"include"} \cup SeqToSet(dsConfig.labelsExcludes))
         THEN {Len(syms) + 1} ELSE {})

C2_Reclassified(l, pat, kind) ==
    l.rest.pat = pat =>
        \A id \in C2_Pending(l) :
            /\ syms'[id].kind = kind
            /\ syms'[id].detail = l.rest.kw \o " " \o l.rest.arg

\* C2: a scanned line holding an EQU (a data) directive turns every symbol
\* waiting in the label buffer into a Constant (a Field) whose detail is the
\* directive followed by its trimmed argument.
C2_ConstDataReclassify ==
    [][(dsPc = "scan" /\ lines' # lines) =>
          LET l == lines'[Len(lines')]
          IN  /\ C2_Reclassified(l, "Const", "Constant")
              /\ C2_Reclassified(l, "Data", "Field")]_vars

(***************************************************************************)
(* C3: every relative label that is not excluded is a child of the nearest *)
(* preceding absolute label, whatever openers and closers lie between.     *)
(***************************************************************************)
IsRelative(k) == DeclaresLabel(k) /\ lines[k].label.m1 = "."

\* line k declares an absolute label that becomes the relative-label parent
SetsParent(k) ==
    /\ DeclaresLabel(k)
    /\ lines[k].label.m1 # "."
    /\ ~(lines[k].label.m1 = "@" /\ ~dsConfig.enableCA65CheapLocalLabelNestingInOutline)

\* the nearest such line before line k, 0 when there is none
NearestAbs(k) ==
    LET S == {j \in 1..(k - 1) : SetsParent(j)}
    IN  IF S = {} THEN 0 ELSE CHOOSE j \in S : \A i \in S : i <= j

C3_Seen(j) ==
    IF HasLabel(lines[j]) /\ ~DeclaresLabel(j) THEN ROther ELSE lines[j].rest

\* line j is a closing line that the scanner processes: a CA65 block end,
\* or ENDMODULE / ENDS when the MODULE step is reached
C3_CloserProcessed(j) ==
    \/ C3_Seen(j).pat = "CA65End"
    \/ /\ ~regexMacro
       /\ C3_Seen(j).pat \in {"Module", "Struct"}
       /\ C3_Seen(j).kw \in {"ENDMODULE", "ENDS"}

C4_IsOpen(l) == l.rest.kw \in {"MODULE", "STRUCT"} /\ l.rest.arg # ""

C4_IsClose(l) == l.rest.kw \in {"ENDMODULE", "ENDS"}

C4_Opens(n) == Cardinality({i \in 1..n : C4_IsOpen(lines[i])})

C4_Closes(n) == Cardinality({i \in 1..n : C4_IsClose(lines[i])})

C4_NeverExceeds == \A n \in 0..Len(lines) : C4_Closes(n) <= C4_Opens(n)

C4_Max0(x) == IF x < 0 THEN 0 ELSE x

\* C4 as stated, for a document whose language has no macro pattern (the
\* MODULE step is then reached on every line): max(0, opens - closes) frames
\* when closes never exceed opens, none otherwise.
C4_OriginalCount ==
    ~regexMacro =>
        Len(lastModules) =
            IF C4_NeverExceeds
            THEN C4_Max0(C4_Opens(Len(lines)) - C4_Closes(Len(lines)))
            ELSE 0

\* the count that saturates at 0: +1 per named opener, -1 per closer
\* unless already 0
RECURSIVE C4_Frames(_)
C4_Frames(n) ==
    IF n = 0 THEN 0
    ELSE IF C4_IsOpen(lines[n]) THEN C4_Frames(n - 1) + 1
    ELSE IF C4_IsClose(lines[n]) THEN C4_Max0(C4_Frames(n - 1) - 1)
    ELSE C4_Frames(n - 1)

\* C4 as amended: the number of open frames is the saturating count; it
\* stays 0 when a macro pattern exists, as the MODULE step is never reached.
C4_SaturatingCount ==
    Len(lastModules) = IF regexMacro THEN 0 ELSE C4_Frames(Len(lines))

\* closes exceeded opens at a prefix, and frames are open at the end
C4_Witness ==
    /\ dsResult = "symbols"
    /\ ~C4_NeverExceeds
    /\ Len(lastModules) = 2

(***************************************************************************)
(* C5: when cancellation is requested after at least one workspace root    *)
(* was fully searched, the call searches no further root and its result    *)
(* still holds the symbols gathered for the completed roots.               *)
(***************************************************************************)
\* the searches started once cancellation was requested
C5_StartedAtCancel ==
    wsAtCancel.completed + (IF wsAtCancel.inFlight THEN 1 ELSE 0)

\* C5 as stated: a call cancelled after it gathered symbols resolves with
\* the symbols gathered so far.
C5_KeepsGathered ==
    (wsPc = "done" /\ wsToken /\ wsAtCancel.completed >= 1 /\ wsSymbols # <<>>)
        => /\ Len(wsSearched) = C5_StartedAtCancel
           /\ wsResolved = "symbols"

\* C5 as amended: once cancellation is requested no further root is
\* searched; the call resolves with undefined, discarding what it
\* gathered, when a cancellation check was still ahead of it at the
\* request, and with the full list when no check was left.
C5_CancelDiscards ==
    /\ wsToken => Len(wsSearched) = C5_StartedAtCancel
    /\ (wsPc = "done" /\ wsToken)
          => wsResolved = (IF wsAtCancel.checkAhead THEN "undefined" ELSE "symbols")
    /\ (wsPc = "done" /\ ~wsToken) => wsResolved = "symbols"

\* cancelled after a completed root that gave symbols, with a root left
C5_Witness ==
    /\ wsPc = "done"
    /\ wsToken
    /\ wsAtCancel.completed >= 1
    /\ wsAtCancel.checkAhead
    /\ wsSymbols # <<>>
    /\ wsI <= Len(wsFolders)
    /\ wsResolved = "undefined"

(***************************************************************************)
(* C6: provideReferences drops the location at the origin when             *)
(* options.includeDeclaration is false and keeps it when it is true.       *)
(***************************************************************************)
\* grep found the word at the origin, as a whole word
C6_OriginFound ==
    \E i \in 1..Len(refCandidates) :
        refCandidates[i].loc = refOrigin /\ refCandidates[i].whole

\* C6: the origin, found by the search as a whole word, is among the
\* returned locations exactly when includeDeclaration is set.
C6_HonoursIncludeDeclaration ==
    (refPc = "done" /\ refResult = "locations" /\ C6_OriginFound)
        => (refOrigin \in SeqToSet(refLocations) <=> refIncludeDeclaration)

(***************************************************************************)
(* C7: find-references returns every valid match: a word with k valid      *)
(* locations other than the origin yields these k locations.               *)
(***************************************************************************)
C7_ValidOthers ==
    {refCandidates[i].loc : i \in {j \in 1..Len(refCandidates) :
        refCandidates[j].whole /\ refCandidates[j].loc # refOrigin}}

\* C7: the returned locations other than the origin are all the whole-word
\* matches other than the origin.
C7_EveryMatchReturned ==
    (refPc = "done" /\ refResult = "locations")
        => SeqToSet(refLocations) \ {refOrigin} = C7_ValidOthers

(***************************************************************************)
(* C10: when the token of provideReferences is cancelled while the search  *)
(* is in flight, the call returns no locations.                            *)
(***************************************************************************)
\* C10: a call whose token was cancelled returns no locations.
C10_CancelYieldsNothing ==
    (refPc = "done" /\ refToken)
        => (refResult = "undefined" \/ refLocations = <<>>)

(***************************************************************************)
(* C8: no symbol whose name is in the label-exclusion list is in the       *)
(* returned tree, whatever construct declared it.                          *)
(***************************************************************************)
\* C8 as stated: no symbol of the returned tree has an excluded name.
C8_NoExcludedNameInTree ==
    \A id \in TreeIds : syms[id].name \notin SeqToSet(dsConfig.labelsExcludes)

\* C8 as amended: no label symbol has an excluded name (the names of CA65
\* directives, macros, modules and structs are not filtered).
C8_NoExcludedLabel ==
    \A id \in 1..Len(syms) :
        syms[id].kind \in LabelKinds =>
            syms[id].name \notin ({"include"} \cup SeqToSet(dsConfig.labelsExcludes))

\* a document with an excluded label and with a label that was kept
C8_Witness ==
    /\ dsResult = "symbols"
    /\ \E k \in 1..Len(lines) : HasLabel(lines[k]) /\ ~DeclaresLabel(k)
    /\ \E id \in TreeIds : syms[id].kind \in LabelKinds

(***************************************************************************)
(* C9: no name of the workspace's label-exclusion list is among the        *)
(* symbols of provideWorkspaceSymbols, and no location of an excluded      *)
(* label is among the locations of provideReferences.                      *)
(***************************************************************************)
\* C9 as amended: the workspace-symbol part (provideReferences applies no
\* exclusion filter).
C9_NoExcludedWsSymbol ==
    \A i \in 1..Len(wsSymbols) :
        wsSymbols[i].name \notin SeqToSet(configs[wsSymbols[i].root].labelsExcludes)

\* C9 as stated: no excluded name among the workspace symbols and no
\* location of an excluded label among the references.
C9_NoExcludedAnywhere ==
    /\ C9_NoExcludedWsSymbol
    /\ (refResult = "locations" /\ refLocations # <<>>)
          => RefSearchWord \notin SeqToSet(refConfig.labelsExcludes)

\* a search found an excluded name beside one that was kept
C9_Witness ==
    /\ wsPc = "done"
    /\ wsResolved = "symbols"
    /\ wsSymbols # <<>>
    /\ \E k \in 1..Len(wsFound) :
          \E n \in SeqToSet(wsFound[k]) :
              n \in SeqToSet(configs[wsSearched[k]].labelsExcludes)

(***************************************************************************)
(* C11: without a configuration, or with the feature toggle off,           *)
(* provideReferences and provideDocumentSymbols return undefined without   *)
(* searching or scanning; provideWorkspaceSymbols never searches such a    *)
(* root and takes no symbol from it, and still processes the other roots.  *)
(***************************************************************************)
\* the workspace-symbol feature is configured and switched on for root r
C11_Enabled(r) == configs[r].defined /\ configs[r].enableWorkspaceSymbols

\* the roots that pass both checks of the loop, in folder order
C11_Eligible ==
    SelectSeq(wsFolders,
              LAMBDA r : C11_Enabled(r)
                         /\ wsQueryLen >= configs[r].workspaceSymbolsRequiredLength)

\* C11: a document request without configuration or with its toggle off is
\* answered with undefined before any line is scanned or any search is
\* started; a workspace root without configuration or with its toggle off
\* is never searched and gives no symbol, and a call that runs to the end
\* of its loop has searched every other root that passes the checks.
C11_SilentWhenUnconfigured ==
    /\ (dsPc # "idle" /\ ~(dsConfig.defined /\ dsConfig.enableOutlineView))
          => /\ dsPc = "done" /\ dsResult = "undefined"
             /\ lines = <<>> /\ syms = <<>> /\ symbols = <<>>
    /\ (refPc # "idle" /\ ~(refConfig.defined /\ refConfig.enableFindAllReferences))
          => /\ refPc = "done" /\ refResult = "undefined"
             /\ refCandidates = <<>> /\ refLocations = <<>>
    /\ \A k \in 1..Len(wsSearched) : C11_Enabled(wsSearched[k])
    /\ \A i \in 1..Len(wsSymbols) : C11_Enabled(wsSymbols[i].root)
    /\ wsResolved = "symbols" => wsSearched = C11_Eligible

\* a call that skipped a root without configuration or with the toggle
\* off, and then searched a later root and took symbols from it
C11_Witness ==
    /\ wsPc = "done" /\ wsResolved = "symbols" /\ wsSymbols # <<>>
    /\ \E i, j \in 1..Len(wsFolders) :
          /\ i < j
          /\ ~C11_Enabled(wsFolders[i])
          /\ wsFolders[j] \in SeqToSet(wsSearched)

(***************************************************************************)
(* C12: every symbol that provideDocumentSymbols creates is in the         *)
(* children list of exactly one parent (another symbol or the root list).  *)
(***************************************************************************)
\* the places (list owner, position) where symbol id is listed; owner 0 is
\* the root list
C12_Places(id) ==
    {<<0, i>> : i \in {j \in 1..Len(symbols) : symbols[j] = id}}
    \cup UNION {{<<p, i>> : i \in {j \in 1..Len(syms[p].children) :
                                        syms[p].children[j] = id}}
                  : p \in 1..Len(syms)}

\* symbol id is a relative label
C12_IsRelativeSym(id) ==
    /\ syms[id].kind \in LabelKinds
    /\ lines[syms[id].line + 1].label.m1 = "."

C13_Top == syms[lastModules[Len(lastModules)]]

\* C13: whenever a scanned line pops the top frame, the line is a CA65
\* block end exactly when the frame was opened by a CA65 directive.
C13_PopMatchesOpener ==
    [][(dsPc = "scan" /\ Len(lastModules') < Len(lastModules))
          => LET seen == LineContents(lines'[Len(lines')], dsConfig)
             IN  (seen.pat = "CA65End") <=> (C13_Top.kind = "Method")]_vars

(***************************************************************************)
(* C14: every macro symbol is an element of the root list, with kind       *)
(* Method, whatever frames are open where the MACRO is declared; it is     *)
(* never a child of a scope frame.                                         *)
(***************************************************************************)
\* line k (1-based) is scanned as a MACRO declaration
C14_MacroLine(k) ==
    regexMacro /\ LineContents(lines[k], dsConfig).pat = "Macro"

\* the symbols created for line k that are not its label
C14_SymsOf(k) ==
    {id \in 1..Len(syms) : syms[id].line = k - 1 /\ syms[id].kind \notin LabelKinds}

\* C14: a line scanned as a MACRO declaration has exactly one symbol, named
\* after the macro and of kind Method, listed once in the root list and in
\* no children list.
C14_MacroAtRoot ==
    \A k \in 1..Len(lines) :
        C14_MacroLine(k) =>
            /\ Cardinality(C14_SymsOf(k)) = 1
            /\ \A id \in C14_SymsOf(k) :
                  /\ syms[id].name = lines[k].rest.arg
                  /\ syms[id].kind = "Method"
                  /\ Cardinality({i \in 1..Len(symbols) : symbols[i] = id}) = 1
                  /\ Parents(id) = {}

\* a macro declared below a frame that is still open
C14_Witness ==
    \E k \in 1..Len(lines) :
        /\ C14_MacroLine(k)
        /\ \E i \in 1..Len(lastModules) : syms[lastModules[i]].line < k - 1
        /\ \E id \in C14_SymsOf(k) : InRoot(id)

(***************************************************************************)
(* C15: a closing keyword (ENDMODULE, ENDS, a CA65 block end) scanned      *)
(* while the scope stack is empty leaves the stack empty, raises no error  *)
(* and removes no symbol from the tree.                                    *)
(***************************************************************************)
\* the text after the label is a closing keyword
C15_IsCloser(rest) ==
    \/ rest.pat = "CA65End"
    \/ rest.pat \in {"Module", "Struct"} /\ rest.kw \in {"ENDMODULE", "ENDS"}

\* s is a prefix of t
C15_Prefix(s, t) == Len(s) <= Len(t) /\ SubSeq(t, 1, Len(s)) = s

\* C15: a step that scans a closing keyword on the empty scope stack ends
\* with the stack empty and the scan going on, and every list of the tree
\* (the root list and each symbol's children) keeps what it held.
C15_CloserOnEmptyStack ==
    [][(dsPc = "scan" /\ lastModules = <<>> /\ lines' # lines
           /\ C15_IsCloser(LineContents(lines'[Len(lines')], dsConfig)))
          => /\ lastModules' = <<>>
             /\ dsPc' = "scan"
             /\ C15_Prefix(symbols, symbols')
             /\ Len(syms) <= Len(syms')
             /\ \A id \in 1..Len(syms) :
                   /\ C15_Prefix(syms[id].children, syms'[id].children)
                   /\ syms'[id].name = syms[id].name]_vars

\* the document `bar: nop` / ENDS, scanned without a macro pattern: the
\* closer met the empty stack and bar is still in the tree
C15_Witness ==
    /\ dsPc = "scan" /\ ~regexMacro
    /\ Len(lines) = 2
    /\ DeclaresLabel(1) /\ lines[1].rest = RCode
    /\ lines[2] = Line(NoLabel, REnds)
    /\ lastModules = <<>>
    /\ symbols # <<>>

(***************************************************************************)
(* C16: the with-colon pattern built from the fuzzy word of a query Q      *)
(* matches the line `I:` when Q is, without regard to case, an in-order    *)
(* subsequence of the characters of I, dotted identifiers included, and    *)
(* does not match when it is not.                                          *)
(***************************************************************************)
C16_SameChar(a, b) ==
    \/ a = b
    \/ <<a, b>> \in {<<"s", "S">>, <<"S", "s">>, <<"a", "A">>, <<"A", "a">>,
                     <<"r", "R">>, <<"R", "r">>, <<"o", "O">>, <<"O", "o">>}

\* q is a subsequence of the characters lo..hi of w
C16_SubseqWithin(q, w, lo, hi) ==
    \E f \in [1..Len(q) -> lo..hi] :
        /\ \A i \in 1..Len(q) : C16_SameChar(q[i], w[f[i]])
        /\ \A i, j \in 1..Len(q) : i < j => f[i] < f[j]

\* the characters lo..hi of w are one of its dot-separated parts
C16_IsPart(w, lo, hi) ==
    /\ lo <= hi
    /\ \A i \in lo..hi : w[i] # "."
    /\ lo = 1 \/ w[lo - 1] = "."
    /\ hi = Len(w) \/ w[hi + 1] = "."

C16_Sn == RegexEveryLabelColonForWord(RegexPrepareFuzzy(<<"s", "n">>), "asm-collection")

C16_SetAndReturn == <<"S", "e", "t", "A", "n", "d", "R", "e", "t", "u", "r", "n", ":">>

C16_Sync == <<"S", "y", "n", "c", ":">>

C16_Other == <<"O", "t", "h", "e", "r", ":">>

C17_LongEnough(r) == wsQueryLen >= configs[r].workspaceSymbolsRequiredLength

\* the position of root r in the workspace folders
C17_FolderPos(r) == CHOOSE i \in 1..Len(wsFolders) : wsFolders[i] = r

C18_Kinds == [i \in 1..Len(rxRegexes) |-> rxRegexes[i].kind]

\* the order of the patterns, and the language of the without-colon one
C18_OrderAndLanguage ==
    /\ Len(rxRegexes) = 2 => C18_Kinds = <<"labelColon", "labelWithoutColon">>
    /\ "labelWithoutColon" \in SeqToSet(C18_Kinds) => rxLanguageId = "asm-collection"

C19_Seen == LineContents(lines'[Len(lines')], dsConfig)

\* C19: a step that scans a line which is not a MACRO declaration shows the
\* effects of the later stages: a MODULE or STRUCT with a name pushes a
\* frame of that kind, a MODULE / STRUCT line and any other non-empty text
\* empty the label buffer, and an empty remainder sets the default kind
\* back to Function.
C19_OnlyMacroLinesSkip ==
    [][(dsPc = "scan" /\ lines' # lines /\ C19_Seen.pat # "Macro")
          => /\ (C19_Seen.pat \in {"Module", "Struct"} /\ C19_Seen.arg # "")
                   => /\ Len(lastModules') = Len(lastModules) + 1
                      /\ syms'[lastModules'[Len(lastModules')]].kind \in {"Module", "Struct"}
             /\ C19_Seen.pat # "Empty" => lastSymbols' = <<>>
             /\ C19_Seen.pat = "Empty" => defaultSymbolKind' = "Function"]_vars

(***************************************************************************)
(* C20: after the label step a line takes effect in at most one of the     *)
(* categories CA65 block, MACRO, MODULE / STRUCT and classification: a     *)
(* CA65 line neither pushes or pops a MODULE / STRUCT frame nor            *)
(* reclassifies or clears the label buffer, and a MODULE / STRUCT line     *)
(* never reclassifies pending labels.                                      *)
(***************************************************************************)
\* the text after the label of the line that a step has just scanned
C20_Seen == LineContents(lines'[Len(lines')], dsConfig)

\* the frames of the stack s that MODULE or STRUCT opened
C20_ModuleFrames(s) == SelectSeq(s, LAMBDA id : syms'[id].kind \in {"Module", "Struct"})

\* the label buffer as the label step of the scanned line leaves it
C20_BufferAfterLabel ==
    IF Len(syms') > Len(syms) /\ syms'[Len(syms) + 1].kind \in LabelKinds
    THEN Append(lastSymbols, Len(syms) + 1)
    ELSE lastSymbols

\* no symbol that existed before the step has a new kind or detail
C20_NothingReclassified ==
    \A id \in 1..Len(syms) :
        syms'[id].kind = syms[id].kind /\ syms'[id].detail = syms[id].detail

\* C20: a step that scans a CA65 directive or block end keeps the MODULE /
\* STRUCT frames of the stack, keeps the label buffer and reclassifies
\* nothing; a step that scans a MODULE / STRUCT line reclassifies nothing.
C20_OneCategoryPerLine ==
    [][(dsPc = "scan" /\ lines' # lines)
          => /\ C20_Seen.pat \in {"CA65", "CA65End"}
                   => /\ C20_ModuleFrames(lastModules') = C20_ModuleFrames(lastModules)
                      /\ lastSymbols' = C20_BufferAfterLabel
                      /\ C20_NothingReclassified
             /\ C20_Seen.pat \in {"Module", "Struct"} => C20_NothingReclassified]_vars

(***************************************************************************)
(* C21: a CA65 directive line creates a Method symbol attached to the top  *)
(* scope frame (to the root when the stack is empty) and pushes a frame    *)
(* unless the directive is .define; a CA65 block end, tested only when the *)
(* directive pattern did not match, pops exactly one frame (none when the  *)
(* stack is empty).                                                        *)
(***************************************************************************)
\* the text after the label of the line that a step has just scanned
C21_Seen == LineContents(lines'[Len(lines')], dsConfig)

\* the symbols a step has created that are not labels
C21_Created ==
    {id \in (Len(syms) + 1)..Len(syms') : syms'[id].kind \notin LabelKinds}

\* symbol id was appended to the list that held old and now holds new
C21_AppendedTo(old, new, id) == new = Append(old, id)

\* C21: a step that scans a CA65 directive creates one symbol of kind Method
\* named after the directive's argument, appends it to the children of the
\* top frame, or to the root list when no frame is open, and pushes it as a
\* frame unless the directive is .define; a step that scans a CA65 block
\* end creates no such symbol and removes the top frame, if there is one.
C21_CA65Directive ==
    [][(dsPc = "scan" /\ lines' # lines)
          => /\ C21_Seen.pat = "CA65" =>
                   /\ Cardinality(C21_Created) = 1
                   /\ \A id \in C21_Created :
                         /\ syms'[id].kind = "Method"
                         /\ syms'[id].name = C21_Seen.arg
                         /\ IF lastModules = <<>>
                            THEN C21_AppendedTo(symbols, symbols', id)
                            ELSE LET top == lastModules[Len(lastModules)]
                                 IN  /\ C21_AppendedTo(syms[top].children,
                                                       syms'[top].children, id)
                                     /\ symbols' = symbols
                         /\ lastModules' = IF C21_Seen.kw = ".define"
                                           THEN lastModules
                                           ELSE Append(lastModules, id)
             /\ C21_Seen.pat = "CA65End" =>
                   /\ C21_Created = {}
                   /\ lastModules' = IF lastModules = <<>> THEN <<>>
                                     ELSE SubSeq(lastModules, 1, Len(lastModules) - 1)]_vars

\* .proc foo / .define foo / .endproc: the .define symbol is a child of the
\* .proc symbol and opened no frame, and the block end closed the .proc
C21_Witness ==
    /\ Len(lines) = 3
    /\ lines[1] = Line(NoLabel, RProc)
    /\ lines[2] = Line(NoLabel, RDefine)
    /\ lines[3] = Line(NoLabel, REndProc)
    /\ symbols = <<1>>
    /\ syms[1].children = <<2>>
    /\ lastModules = <<>>

(***************************************************************************)
(* C22: the default kind of a new label is Function at the start of the    *)
(* document, becomes Constant or Field after a line that reclassifies the  *)
(* pending labels to that kind, and is Function again after any line with  *)
(* an empty remainder; so a label on a line without operand that follows   *)
(* a line with an empty remainder is created as a Function.                *)
(***************************************************************************)
\* the text after the label of the line that a step has just scanned
C22_Seen == LineContents(lines'[Len(lines')], dsConfig)

\* the kind a constant or data line gives to the pending labels
C22_KindOf(pat) == IF pat = "Const" THEN "Constant" ELSE "Field"

\* the step has given kind k to a label that was pending
C22_ReclassifiedTo(k) ==
    \E id \in 1..Len(syms') :
        /\ syms'[id].kind = k
        /\ syms'[id].detail # ""
        /\ id \in SeqToSet(lastSymbols) \/ id > Len(syms)

\* the label that the step has created, 0 if none
C22_NewLabel ==
    IF Len(syms') > Len(syms) /\ syms'[Len(syms) + 1].kind \in LabelKinds
    THEN Len(syms) + 1 ELSE 0

\* C22: the scan starts with the default kind Function; a step that
\* reclassifies pending labels leaves that kind as the default; a step over
\* a line with an empty remainder leaves Function as the default; no other
\* step changes the default; and a new label is created with the default
\* kind, hence as a Function on the first line and after a line with an
\* empty remainder.
C22_DefaultKind ==
    [][/\ (dsPc = "idle" /\ dsPc' = "scan") => defaultSymbolKind' = "Function"
       /\ (dsPc = "scan" /\ lines' # lines) =>
             /\ C22_Seen.pat = "Empty" => defaultSymbolKind' = "Function"
             /\ \A k \in {"Constant", "Field"} :
                   C22_ReclassifiedTo(k) => defaultSymbolKind' = k
             /\ defaultSymbolKind' # defaultSymbolKind =>
                   \/ C22_Seen.pat = "Empty"
                   \/ /\ C22_Seen.pat \in {"Const", "Data"}
                      /\ C22_ReclassifiedTo(C22_KindOf(C22_Seen.pat))
                      /\ defaultSymbolKind' = C22_KindOf(C22_Seen.pat)
             /\ (C22_NewLabel # 0 /\ C22_Seen.pat = "Empty") =>
                   /\ syms'[C22_NewLabel].kind = defaultSymbolKind
                   /\ (lines = <<>> \/ LineContents(lines[Len(lines)], dsConfig).pat = "Empty")
                         => syms'[C22_NewLabel].kind = "Function"]_vars

\* VAL: EQU 5 / bar: / bar: without a macro pattern: the first bar was
\* created while Constant was the default, the second one after the
\* default went back to Function
C22_Witness ==
    /\ ~regexMacro /\ Len(lines) = 3
    /\ lines[1] = Line(Lbl("", "VAL"), RConst)
    /\ lines[2] = Line(Lbl("", "bar"), REmpty)
    /\ lines[3] = Line(Lbl("", "bar"), REmpty)
    /\ Len(syms) = 3
    /\ syms[1].kind = "Constant" /\ syms[2].kind = "Constant"
    /\ syms[3].kind = "Function"
    /\ defaultSymbolKind = "Function"

(***************************************************************************)
(* C23: a cheap local label (starting with @) is attached to the root and  *)
(* leaves the relative-label parent unchanged when                         *)
(* enableCA65CheapLocalLabelNestingInOutline is off; when it is on, the    *)
(* label is attached to the top scope frame (the root when the stack is    *)
(* empty) and becomes the parent of the relative labels that follow.       *)
(***************************************************************************)
\* the line that a step has just scanned
C23_Line == lines'[Len(lines')]

\* the step scans a cheap local label that is not excluded
C23_CheapLabel ==
    /\ dsPc = "scan" /\ lines' # lines
    /\ HasLabel(C23_Line) /\ C23_Line.label.m1 = "@"
    /\ LabelText(C23_Line) \notin ({"include"} \cup SeqToSet(dsConfig.labelsExcludes))

\* the rest of the scanned line closes a block, which resets the parent
C23_Closes ==
    \/ C23_Line.rest.pat = "CA65End"
    \/ /\ ~regexMacro
       /\ C23_Line.rest.pat \in {"Module", "Struct"}
       /\ C23_Line.rest.kw \in {"ENDMODULE", "ENDS"}

\* list new starts with list old followed by id
C23_Next(old, new, id) ==
    Len(new) > Len(old) /\ SubSeq(new, 1, Len(old) + 1) = Append(old, id)

\* C23: the symbol of a cheap local label is the next entry of the root
\* list when the toggle is off, and then the relative-label parent is the
\* one the line found (or none, if the line closes a block); when the
\* toggle is on it is the next child of the frame that was on top, or the
\* next entry of the root list if no frame was open, and it is the
\* relative-label parent after the line unless the line closes a block.
C23_CheapLocalLabel ==
    [][C23_CheapLabel =>
          LET id == Len(syms) + 1
          IN  /\ syms'[id].name = LabelText(C23_Line)
              /\ IF ~dsConfig.enableCA65CheapLocalLabelNestingInOutline
                 THEN /\ C23_Next(symbols, symbols', id)
                      /\ \A p \in 1..Len(syms') : id \notin SeqToSet(syms'[p].children)
                      /\ lastAbsSymbolChildren' =
                            IF C23_Closes THEN 0 ELSE lastAbsSymbolChildren
                 ELSE /\ IF lastModules = <<>>
                         THEN C23_Next(symbols, symbols', id)
                         ELSE LET top == lastModules[Len(lastModules)]
                              IN  /\ C23_Next(syms[top].children, syms'[top].children, id)
                                  /\ id \notin SeqToSet(symbols')
                      /\ lastAbsSymbolChildren' = IF C23_Closes THEN 0 ELSE id]_vars

\* with the toggle on: a cheap local label nested in an open frame, and a
\* relative label after it that became its child
C23_Witness ==
    /\ dsConfig.enableCA65CheapLocalLabelNestingInOutline
    /\ \E k1, k2 \in 1..Len(lines) :
          /\ k1 < k2
          /\ DeclaresLabel(k1) /\ lines[k1].label.m1 = "@"
          /\ IsRelative(k2)
          /\ Parents(LabelSym(k1)) # {}
          /\ Parents(LabelSym(k2)) = {LabelSym(k1)}

\* ---------------------------------------------------------------------
\* C24  one configuration snapshot per provideWorkspaceSymbols call
\* ---------------------------------------------------------------------

\* the root the loop is at passes both tests under configuration map cfgs
C24_Eligible(cfgs) ==
    LET c == cfgs[wsFolders[wsI]]
    IN  /\ c.defined /\ c.enableWorkspaceSymbols
        /\ ~(wsQueryLen < c.workspaceSymbolsRequiredLength)

\* the loop decides about the root it is at: it starts the search or skips
C24_Searches == WsAtLoopHead /\ ~wsToken /\ wsPc' = "await"

C24_Skips == WsAtLoopHead /\ ~wsToken /\ wsPc' = "loop" /\ wsI' = wsI + 1

\* C24: every root of a call is searched or skipped as the configuration
\* that was in place when the call started says, whatever settings change
\* happened while the call awaited an earlier root
C24_SameSnapshot ==
    [][/\ C24_Searches => C24_Eligible(wsConfigsAtCall)
       /\ C24_Skips => ~C24_Eligible(wsConfigsAtCall)]_vars

\* ---------------------------------------------------------------------
\* C25  configure leaves the entries that are no provider registration
\* ---------------------------------------------------------------------

\* the disposables that are not one of the nine provider registrations
C25_OtherEntries ==
    {d \in 1..Len(disposables) :
        disposables[d].what \in SeqToSet(ActivateEntries)
                                \cup SeqToSet(ActivateListeners)}

\* C25: once activated, and after any number of configure calls, the
\* whatsNew command, the two webview registrations and the two listeners
\* are all still in context.subscriptions
C25_OtherEntriesKept ==
    extActivated =>
        /\ Cardinality(C25_OtherEntries) = 5
        /\ \A d \in C25_OtherEntries : d \in SeqToSet(subscriptions)

\* ---------------------------------------------------------------------
\* C26  the registrations after a configure call
\* ---------------------------------------------------------------------

\* the registrations of one provider kind that are not disposed
C26_Live(kind) ==
    {d \in 1..Len(disposables) :
        disposables[d].what = kind /\ d \notin disposed}

\* the provider registrations made by configure calls before the last one
C26_Earlier ==
    {d \in 1..Len(disposables) :
        /\ disposables[d].what \in SeqToSet(ProviderKinds)
        /\ disposables[d].configure < extConfigures}

\* C26: after a configure call an enabled kind has one undisposed
\* registration, which is in context.subscriptions, a disabled kind has
\* none, folding has one, and every earlier registration is disposed
C26_OnePerEnabledKind ==
    extActivated =>
        /\ \A kind \in GatedKinds :
              IF globalEnable[kind]
              THEN /\ Cardinality(C26_Live(kind)) = 1
                   /\ C26_Live(kind) \subseteq SeqToSet(subscriptions)
              ELSE C26_Live(kind) = {}
        /\ Cardinality(C26_Live("folding")) = 1
        /\ C26_Earlier \subseteq disposed

\* a third configure call ran after a toggle had been switched off: the
\* kind's variable still held a registration that was disposed before
C26_Witness ==
    /\ extConfigures = 3
    /\ \E kind \in GatedKinds :
          /\ globalEnable[kind]
          /\ \E d \in disposed :
                disposables[d].what = kind /\ disposables[d].configure = 1
          /\ \A d \in 1..Len(disposables) :
                disposables[d].what = kind => disposables[d].configure # 2

\* ---------------------------------------------------------------------
\* C27  every provideWorkspaceSymbols call settles
\* ---------------------------------------------------------------------

\* C27: a call that was made is eventually resolved, with the symbols or
\* with undefined, also when the search of one of its roots fails
C27_EventuallySettles == (wsPc # "idle") ~> (wsResolved # "pending")
====
